---- MODULE Spec2Model ----
(***************************************************************************)
(* libredex/MethodProfiles.cpp: the stats-file parser of MethodProfiles    *)
(* (parse_stats_file, parse_header, parse_metadata, parse_main,            *)
(* process_unresolved_lines, method_stats) and the comparator built on it  *)
(* (dexmethods_profiled_comparator).                                       *)
(*                                                                         *)
(* C strings are sequences of one-character strings.  A double is kept as  *)
(* a whole number of thousandths (99.0 is 99000), a NaN as the number NaN, *)
(* which no finite value of the model reaches.  A uint32 interaction       *)
(* count is kept as its decimal digits, because 2^32 - 1 is wider than the *)
(* integers of the model checker.                                          *)
(***************************************************************************)
EXTENDS Integers, Sequences, FiniteSets, TLC

(***************************************************************************)
(* Bounds of the model.                                                    *)
(***************************************************************************)
\* lines one call of parse_stats_file reads at most
MaxLines == 4

(***************************************************************************)
(* String literals of the source.                                          *)
(***************************************************************************)
s_interaction == <<"i", "n", "t", "e", "r", "a", "c", "t", "i", "o", "n">>
s_appear_num == <<"a", "p", "p", "e", "a", "r", "#">>
s_index == <<"i", "n", "d", "e", "x">>
s_name == <<"n", "a", "m", "e">>
s_appear100 == <<"a", "p", "p", "e", "a", "r", "1", "0", "0">>
s_avg_call == <<"a", "v", "g", "_", "c", "a", "l", "l">>
s_avg_order == <<"a", "v", "g", "_", "o", "r", "d", "e", "r">>
s_avg_rank100 == <<"a", "v", "g", "_", "r", "a", "n", "k", "1", "0", "0">>
s_min_api_level == <<"m", "i", "n", "_", "a", "p", "i", "_", "l", "e", "v", "e", "l">>
\* the canonical cold-start interaction id
COLD_START == <<"C", "o", "l", "d", "S", "t", "a", "r", "t">>
\* the empty string
EMPTY == <<>>
NL == "\n"

\* column indices of the main section
INDEX == 0
NAME == 1
APPEAR100 == 2
APPEAR_NUMBER == 3
AVG_CALL == 4
AVG_ORDER == 5
AVG_RANK100 == 6
MIN_API_LEVEL == 7

MAX_CELL_LENGTH == 1000

\* std::numeric_limits<uint32_t>::max(), <int16_t>::max(), -<int16_t>::min()
\* and LONG_MAX, -LONG_MIN (LP64), in decimal digits
UINT32_MAX == <<"4", "2", "9", "4", "9", "6", "7", "2", "9", "5">>
INT16_MAX == <<"3", "2", "7", "6", "7">>
INT16_MIN_MAG == <<"3", "2", "7", "6", "8">>
LONG_MAX == <<"9", "2", "2", "3", "3", "7", "2", "0", "3", "6", "8", "5", "4", "7", "7", "5", "8", "0", "7">>
LONG_MIN_MAG == <<"9", "2", "2", "3", "3", "7", "2", "0", "3", "6", "8", "5", "4", "7", "7", "5", "8", "0", "8">>

(***************************************************************************)
(* C string helpers.                                                       *)
(***************************************************************************)
Take(s, n) == SubSeq(s, 1, IF n < Len(s) THEN n ELSE Len(s))
Drop(s, n) == SubSeq(s, n + 1, Len(s))

\* the characters isdigit and isspace accept, and the digit zero
IsDigit == {"0", "1", "2", "3", "4", "5", "6", "7", "8", "9"}
IsZero == {"0"}
isspace == {" ", "\t", "\n", "\r", "\f"}
DigitVal(c) == CHOOSE d \in 0..9 : <<"0", "1", "2", "3", "4", "5", "6", "7", "8", "9">>[d + 1] = c

\* length of the longest prefix of s whose characters are all in the class
RunLen(s, class) ==
  LET bad == {i \in 1..Len(s) : s[i] \notin class}
  IN IF bad = {} THEN Len(s) ELSE (CHOOSE i \in bad : \A j \in bad : i <= j) - 1

\* strncmp(a, b, n) == 0
strncmp_eq(a, b, n) == Take(a, n) = Take(b, n)

\* strnlen(s, n)
strnlen(s, n) == IF Len(s) < n THEN Len(s) ELSE n

\* a string without its trailing '\n', as `if (s.back() == '\n') s.resize(size - 1)`
\* (cells of the lines read here are never empty)
strip_newline(s) == IF s # <<>> /\ s[Len(s)] = NL THEN Take(s, Len(s) - 1) ELSE s

(***************************************************************************)
(* Decimal digit strings as numbers.                                       *)
(***************************************************************************)
Normalize(d) ==
  LET z == RunLen(d, IsZero) IN IF z = Len(d) THEN <<"0">> ELSE Drop(d, z)

\* a <= b, for normalized digit strings
DecLE(a, b) ==
  \/ Len(a) < Len(b)
  \/ /\ Len(a) = Len(b)
     /\ \/ a = b
        \/ LET i == CHOOSE k \in 1..Len(a) : a[k] # b[k] /\ \A j \in 1..(k - 1) : a[j] = b[j]
           IN DigitVal(a[i]) < DigitVal(b[i])

DecVal(d) ==
  LET v[k \in 0..Len(d)] == IF k = 0 THEN 0 ELSE v[k - 1] * 10 + DigitVal(d[k])
  IN v[Len(d)]

(***************************************************************************)
(* strtol(tok, &rest, 10) and strtod(tok, &rest).                          *)
(* converted is FALSE when no conversion was made, and then rest == tok.   *)
(* strtod is modelled for the decimal form [ws][sign]digits[.digits] and   *)
(* for [ws][sign]nan; the cells read here use no exponent, hexadecimal or  *)
(* inf form.                                                               *)
(***************************************************************************)
\* a double that is not a number, and the operations of doubles the source
\* uses: a comparison with a NaN is false, arithmetic on a NaN gives a NaN
NaN == 0 - 2147483647
isnan(x) == x = NaN
double_eq(x, y) == ~isnan(x) /\ ~isnan(y) /\ x = y
double_less(x, y) == ~isnan(x) /\ ~isnan(y) /\ x < y
double_ge(x, y) == ~isnan(x) /\ ~isnan(y) /\ x >= y
double_add(x, y) == IF isnan(x) \/ isnan(y) THEN NaN ELSE x + y

\* tok after its leading white space; whether what is left begins with a
\* sign, and with which; and what follows the sign
skip_space(tok) == Drop(tok, RunLen(tok, isspace))
has_sign(a) == a # <<>> /\ a[1] \in {"+", "-"}
is_negative(a) == a # <<>> /\ a[1] = "-"
skip_sign(a) == IF has_sign(a) THEN Drop(a, 1) ELSE a

\* the magnitude mag, clamped to LONG_MAX or to LONG_MIN as strtol does
clamp(neg, mag) ==
  IF neg THEN (IF DecLE(mag, LONG_MIN_MAG) THEN mag ELSE LONG_MIN_MAG)
  ELSE (IF DecLE(mag, LONG_MAX) THEN mag ELSE LONG_MAX)

\* strtol on tok whose digits, if any, are the first nd characters of b
strtol_digits(tok, neg, b, nd) ==
  IF nd = 0
  THEN [converted |-> FALSE, neg |-> FALSE, digs |-> <<"0">>, rest |-> tok]
  ELSE [converted |-> TRUE, neg |-> neg,
        digs |-> clamp(neg, Normalize(Take(b, nd))),
        rest |-> Drop(b, nd)]

strtol_signed(tok, neg, b) == strtol_digits(tok, neg, b, RunLen(b, IsDigit))

strtol_spaced(tok, a) == strtol_signed(tok, is_negative(a), skip_sign(a))

strtol(tok) == strtol_spaced(tok, skip_space(tok))

\* the first three digits of a fraction, as thousandths
thousandths(frac) == DecVal(Take(frac \o <<"0", "0", "0">>, 3))

\* strtod on tok: b has ni digits, then c; f is what follows the point of c,
\* nf digits of it belong to the number
strtod_fraction(tok, neg, b, ni, c, f, nf) ==
  IF ni + nf = 0
  THEN [converted |-> FALSE, val |-> 0, rest |-> tok]
  ELSE [converted |-> TRUE,
        val |-> (IF neg THEN 0 - 1 ELSE 1)
                  * (DecVal(Take(b, ni)) * 1000 + thousandths(Take(f, nf))),
        rest |-> IF f # c THEN Drop(f, nf) ELSE c]

strtod_point(tok, neg, b, ni, c) ==
  IF c # <<>> /\ c[1] = "."
  THEN strtod_fraction(tok, neg, b, ni, c, Drop(c, 1), RunLen(Drop(c, 1), IsDigit))
  ELSE strtod_fraction(tok, neg, b, ni, c, c, 0)

strtod_digits(tok, neg, b, ni) == strtod_point(tok, neg, b, ni, Drop(b, ni))

\* the characters `nan`, in any case
is_nan_form(b) ==
  Len(b) >= 3 /\ b[1] \in {"n", "N"} /\ b[2] \in {"a", "A"} /\ b[3] \in {"n", "N"}

strtod_signed(tok, neg, b) ==
  IF is_nan_form(b) THEN [converted |-> TRUE, val |-> NaN, rest |-> Drop(b, 3)]
  ELSE strtod_digits(tok, neg, b, RunLen(b, IsDigit))

strtod_spaced(tok, a) == strtod_signed(tok, is_negative(a), skip_sign(a))

strtod(tok) == strtod_spaced(tok, skip_space(tok))

\* the two always_assert_log of parse_int and of parse_double: a conversion
\* was made, and nothing but a line terminator follows it
converted_all(r) ==
  r.converted /\ (Len(r.rest) = 0 \/ (Len(r.rest) = 1 /\ r.rest[1] = NL))

\* parse_int: ok is FALSE when one of its two always_assert_log fails
parse_int_of(r) == [ok |-> converted_all(r), neg |-> r.neg, digs |-> r.digs]

parse_int(tok) == parse_int_of(strtol(tok))

\* parse_double: ok is FALSE when one of its two always_assert_log fails
parse_double_of(r) == [ok |-> converted_all(r), val |-> r.val]

parse_double(tok) == parse_double_of(strtod(tok))

(***************************************************************************)
(* Containers.                                                             *)
(***************************************************************************)
\* an emplace that assigns to a key already present (insert_or_assign)
emplace_overwrite(m, k, v) == IF k \in DOMAIN m THEN [m EXCEPT ![k] = v] ELSE m @@ (k :> v)

\* std::unordered_map::emplace: inserts only when the key is absent
emplace(m, k, v) == IF k \in DOMAIN m THEN m ELSE m @@ (k :> v)

\* the sum of the sizes of the maps of a map of maps
total_rows(ms) ==
  LET RECURSIVE Sum(_)
      Sum(S) == IF S = {} THEN 0
                ELSE LET k == CHOOSE x \in S : TRUE
                     IN Cardinality(DOMAIN ms[k]) + Sum(S \ {k})
  IN Sum(DOMAIN ms)

\* unresolved_size(): the number of lines of the backlog
unresolved_size(ul) ==
  LET RECURSIVE Sum(_)
      Sum(S) == IF S = {} THEN 0
                ELSE LET k == CHOOSE x \in S : TRUE
                     IN Len(ul[k]) + Sum(S \ {k})
  IN Sum(DOMAIN ul)

(***************************************************************************)
(* Collaborators declared outside MethodProfiles.cpp.                      *)
(***************************************************************************)
nullptr == <<"nullptr">>

\* DexMethod::get_method: the reference of a known name (here the name
\* itself), nullptr for a name the symbol table does not hold
get_method(tok, symbols) == IF tok \in symbols THEN tok ELSE nullptr

\* a value-initialized Stats
DefaultStats ==
  [appear_percent |-> 0, call_count |-> 0, order_percent |-> 0, min_api_level |-> 0]

\* the cells of a line: the text between the field delimiters, the line
\* terminator staying on the last cell
Cells(line) ==
  LET cs == {i \in 1..Len(line) : line[i] = ","}
      n == Cardinality(cs)
      \* the position of the k-th delimiter; 0 and Len(line) + 1 bracket the line
      pos(k) ==
        IF k = 0 THEN 0
        ELSE IF k = n + 1 THEN Len(line) + 1
        ELSE CHOOSE p \in cs : Cardinality({q \in cs : q < p}) = k - 1
  IN IF Len(line) = 0 THEN <<>>
     ELSE [k \in 1..(n + 1) |-> SubSeq(line, pos(k - 1) + 1, pos(k) - 1)]

(***************************************************************************)
(* The lambdas of parse_header.  A result is [ok, acc]: ok is "true" or    *)
(* "false" as the lambda returns, "fatal" when an always_assert fails; acc *)
(* is what the lambda captures by reference, as the call leaves it.        *)
(***************************************************************************)
check_cell(expected, tok) == strncmp_eq(tok, expected, MAX_CELL_LENGTH)

Answer(b) == IF b THEN "true" ELSE "false"

header_metadata_cell(st, tok, i) ==
  [ok |-> Answer(CASE i = 0 -> check_cell(s_interaction, tok)
                   [] i = 1 -> check_cell(s_appear_num, tok)
                   [] OTHER -> LET len == strnlen(tok, 100)
                               IN len = 0 \/ (len = 1 /\ tok[1] = NL)),
   acc |-> st]

header_main_cell(st, tok, i) ==
  CASE i = INDEX -> [ok |-> Answer(check_cell(s_index, tok)), acc |-> st]
    [] i = NAME -> [ok |-> Answer(check_cell(s_name, tok)), acc |-> st]
    [] i = APPEAR100 -> [ok |-> Answer(check_cell(s_appear100, tok)), acc |-> st]
    [] i = APPEAR_NUMBER -> [ok |-> Answer(check_cell(s_appear_num, tok)), acc |-> st]
    [] i = AVG_CALL -> [ok |-> Answer(check_cell(s_avg_call, tok)), acc |-> st]
    [] i = AVG_ORDER -> [ok |-> Answer(check_cell(s_avg_order, tok)), acc |-> st]
    [] i = AVG_RANK100 -> [ok |-> Answer(check_cell(s_avg_rank100, tok)), acc |-> st]
    [] i = MIN_API_LEVEL -> [ok |-> Answer(check_cell(s_min_api_level, tok)), acc |-> st]
    [] OTHER ->
         [ok |-> "true",
          acc |-> [st EXCEPT !.m_optional_columns = emplace(@, i, strip_newline(tok))]]

(***************************************************************************)
(* The lambda of parse_metadata.                                           *)
(***************************************************************************)
\* interaction_count = parsed, after the two assertions on its range
store_count(acc, parsed) ==
  IF ~parsed.ok THEN [ok |-> "fatal", acc |-> acc]
  ELSE IF ~(parsed.neg \/ DecLE(parsed.digs, UINT32_MAX))
       THEN [ok |-> "fatal", acc |-> acc]
  ELSE IF ~(~parsed.neg \/ parsed.digs = <<"0">>)
       THEN [ok |-> "fatal", acc |-> acc]
  ELSE [ok |-> "true", acc |-> [acc EXCEPT !.interaction_count = parsed.digs]]

metadata_cell(acc, tok, i) ==
  CASE i = 0 -> [ok |-> "true", acc |-> [acc EXCEPT !.st.m_interaction_id = tok]]
    [] i = 1 -> store_count(acc, parse_int(tok))
    [] OTHER -> [ok |-> "false", acc |-> acc]

(***************************************************************************)
(* The lambda of parse_main.                                               *)
(***************************************************************************)
\* stats.<field> = parse_double(tok)
store_double(acc, field, d) ==
  IF d.ok THEN [ok |-> "true", acc |-> [acc EXCEPT !.stats[field] = d.val]]
  ELSE [ok |-> "fatal", acc |-> acc]

\* stats.min_api_level = level, after the two assertions on its range
store_level(acc, level) ==
  IF ~level.ok THEN [ok |-> "fatal", acc |-> acc]
  ELSE IF ~(level.neg \/ DecLE(level.digs, INT16_MAX))
       THEN [ok |-> "fatal", acc |-> acc]
  ELSE IF ~(~level.neg \/ DecLE(level.digs, INT16_MIN_MAG))
       THEN [ok |-> "fatal", acc |-> acc]
  ELSE [ok |-> "true",
        acc |-> [acc EXCEPT !.stats.min_api_level =
                               IF level.neg THEN 0 - DecVal(level.digs)
                               ELSE DecVal(level.digs)]]

main_cell(optional_columns, symbols, acc, tok, i) ==
  CASE i = INDEX -> [ok |-> "true", acc |-> acc]
    [] i = NAME -> [ok |-> "true", acc |-> [acc EXCEPT !.ref = get_method(tok, symbols)]]
    [] i = APPEAR100 -> store_double(acc, "appear_percent", parse_double(tok))
    [] i = APPEAR_NUMBER -> [ok |-> "true", acc |-> acc]
    [] i = AVG_CALL -> store_double(acc, "call_count", parse_double(tok))
    [] i = AVG_ORDER -> [ok |-> "true", acc |-> acc]
    [] i = AVG_RANK100 -> store_double(acc, "order_percent", parse_double(tok))
    [] i = MIN_API_LEVEL -> store_level(acc, parse_int(tok))
    [] OTHER ->
         IF i \in DOMAIN optional_columns /\ optional_columns[i] = s_interaction
         THEN [ok |-> "true", acc |-> [acc EXCEPT !.interaction_id = strip_newline(tok)]]
         ELSE [ok |-> "false", acc |-> acc]

(***************************************************************************)
(* parse_cells.  The lambda a function hands over is named by the function *)
(* (of), its captures other than the accumulator are env.                  *)
(***************************************************************************)
parse_cell(of, env, acc, tok, i) ==
  CASE of = "parse_header: metadata" -> header_metadata_cell(acc, tok, i)
    [] of = "parse_header: main" -> header_main_cell(acc, tok, i)
    [] of = "parse_metadata" -> metadata_cell(acc, tok, i)
    [] of = "parse_main" -> main_cell(env.m_optional_columns, env.symbols, acc, tok, i)

\* parse_cells: calls the lambda on every cell, i from 0, and stops at the
\* first one that does not answer "true"
next_cell(of, env, prev, tok, i) ==
  IF prev.ok # "true" THEN prev ELSE parse_cell(of, env, prev.acc, tok, i)

cells_from(toks, acc0, of, env) ==
  LET F[k \in 0..Len(toks)] ==
        IF k = 0 THEN [ok |-> "true", acc |-> acc0]
        ELSE next_cell(of, env, F[k - 1], toks[k], k - 1)
  IN F[Len(toks)]

parse_cells(line, acc0, of, env) == cells_from(Cells(line), acc0, of, env)

(***************************************************************************)
(* parse_header, parse_metadata and parse_main.  A result is [ok, st]: ok  *)
(* as above, st the store as the call leaves it.  The result of parse_main *)
(* carries the row as it was filed too: where ("stats", "unresolved", or   *)
(* "none" when the call failed), and the locals ref, interaction_id, stats *)
(* and copy at that point.                                                 *)
(***************************************************************************)
\* what parse_header returns: the answer of parse_cells
header_result(r) == [ok |-> r.ok, st |-> r.acc]

parse_header(line, st) ==
  IF st.m_mode # "NONE" THEN [ok |-> "fatal", st |-> st]
  ELSE IF strncmp_eq(line, s_interaction, 11)
  THEN header_result(parse_cells(line, [st EXCEPT !.m_mode = "METADATA"],
                                 "parse_header: metadata", <<>>))
  ELSE header_result(parse_cells(line, [st EXCEPT !.m_mode = "MAIN"],
                                 "parse_header: main", <<>>))

\* parse_metadata after parse_cells: the count is filed and the mode reset
\* when every cell was taken
metadata_result(r) ==
  IF r.ok # "true" THEN [ok |-> r.ok, st |-> r.acc.st]
  ELSE [ok |-> "true",
        st |-> [r.acc.st EXCEPT
                  !.m_interaction_counts =
                     emplace(@, r.acc.st.m_interaction_id, r.acc.interaction_count),
                  !.m_mode = "NONE"]]

parse_metadata(line, st) ==
  IF st.m_mode # "METADATA" THEN [ok |-> "fatal", st |-> st]
  ELSE metadata_result(parse_cells(line, [st |-> st, interaction_count |-> <<"0">>],
                                   "parse_metadata", <<>>))

\* a row_interaction_id that leaves the cell of the row aside
row_interaction_id_top(interaction_id, m_interaction_id) == m_interaction_id

\* the interaction id of a row: its own when it has one, else the one of the
\* top of the file
row_interaction_id(interaction_id, m_interaction_id) ==
  IF interaction_id = EMPTY THEN m_interaction_id ELSE interaction_id

\* m_method_stats[interaction_id].emplace(ref, stats)
stats_emplace(ms, interaction_id, ref, stats) ==
  IF interaction_id \in DOMAIN ms
  THEN [ms EXCEPT ![interaction_id] = emplace(@, ref, stats)]
  ELSE ms @@ (interaction_id :> (ref :> stats))

\* a push_back that assigns the line instead of appending it
unresolved_assign(ul, interaction_id, copy) ==
  IF interaction_id \in DOMAIN ul
  THEN [ul EXCEPT ![interaction_id] = <<copy>>]
  ELSE ul @@ (interaction_id :> <<copy>>)

\* m_unresolved_lines[interaction_id].push_back(copy)
unresolved_push_back(ul, interaction_id, copy) ==
  IF interaction_id \in DOMAIN ul
  THEN [ul EXCEPT ![interaction_id] = Append(@, copy)]
  ELSE ul @@ (interaction_id :> <<copy>>)

\* a filing that does not look at ref: every row goes to the stats
file_row_unchecked(st, ref, interaction_id, stats, copy) ==
  [st EXCEPT !.m_method_stats = stats_emplace(@, interaction_id, ref, stats)]

\* the end of parse_main: a resolved row goes to the stats, another to the backlog
file_row(st, ref, interaction_id, stats, copy) ==
  IF ref # nullptr
  THEN [st EXCEPT !.m_method_stats = stats_emplace(@, interaction_id, ref, stats)]
  ELSE [st EXCEPT !.m_unresolved_lines = unresolved_push_back(@, interaction_id, copy)]

\* no row filed
NoRow(line) ==
  [where |-> "none", ref |-> nullptr, interaction_id |-> EMPTY,
   stats |-> DefaultStats, copy |-> line]

\* the row as it is filed under interaction_id
filed(st, copy, acc, interaction_id) ==
  [ok |-> "true",
   st |-> file_row(st, acc.ref, interaction_id, acc.stats, copy),
   row |-> [where |-> IF acc.ref # nullptr THEN "stats" ELSE "unresolved",
            ref |-> acc.ref, interaction_id |-> interaction_id,
            stats |-> acc.stats, copy |-> copy]]

\* parse_main after parse_cells
main_result(st, copy, r) ==
  IF r.ok # "true" THEN [ok |-> r.ok, st |-> st, row |-> NoRow(copy)]
  ELSE filed(st, copy, r.acc, row_interaction_id(r.acc.interaction_id, st.m_interaction_id))

parse_main(line, st, symbols) ==
  IF st.m_mode # "MAIN" THEN [ok |-> "fatal", st |-> st, row |-> NoRow(line)]
  ELSE main_result(st, line,
                   parse_cells(line,
                               [stats |-> DefaultStats, interaction_id |-> EMPTY, ref |-> nullptr],
                               "parse_main",
                               [m_optional_columns |-> st.m_optional_columns,
                                symbols |-> symbols]))

(***************************************************************************)
(* parse_line.                                                             *)
(***************************************************************************)
\* by names the function that handled the line ("invalid": the assertion
\* of the last branch)
handled_by(by, r, row) == [ok |-> r.ok, st |-> r.st, row |-> row, by |-> by]

handled_by_main(r) == handled_by("parse_main", r, r.row)

parse_line(line, st, symbols) ==
  IF st.m_mode = "MAIN" THEN handled_by_main(parse_main(line, st, symbols))
  ELSE IF st.m_mode = "METADATA"
       THEN handled_by("parse_metadata", parse_metadata(line, st), NoRow(line))
  ELSE [ok |-> "fatal", st |-> st, row |-> NoRow(line), by |-> "invalid"]

\* a loop body that takes every line before the main header for a header
parse_one_header_first(line, st, symbols) ==
  IF st.m_mode # "MAIN"
  THEN handled_by("parse_header", parse_header(line, st), NoRow(line))
  ELSE parse_line(line, st, symbols)

\* the body of the loop of parse_stats_file, up to `success`
parse_one(line, st, symbols) ==
  IF st.m_mode = "NONE"
  THEN handled_by("parse_header", parse_header(line, st), NoRow(line))
  ELSE parse_line(line, st, symbols)

(***************************************************************************)
(* method_stats.                                                           *)
(***************************************************************************)
empty_map == <<>>

\* a lookup without the fallback of COLD_START to the empty id
method_stats_no_fallback(ms, interaction_id) ==
  IF interaction_id \in DOMAIN ms THEN ms[interaction_id] ELSE empty_map

method_stats(ms, interaction_id) ==
  IF interaction_id \in DOMAIN ms THEN ms[interaction_id]
  ELSE IF interaction_id = COLD_START /\ EMPTY \in DOMAIN ms THEN ms[EMPTY]
  ELSE empty_map

(***************************************************************************)
(* process_unresolved_lines.  order is the order in which the loop meets   *)
(* the keys of the snapshot.  The result carries the rows as parse_main    *)
(* filed them, in that order.                                              *)
(***************************************************************************)
\* a clear that is left out
clear_nothing(ul) == ul

\* the backlog without its lines: m_unresolved_lines.clear()
clear(ul) == <<>>

\* an outer loop that stops after the first key
visit_first_key(unresolved_lines, order) ==
  IF Len(order) = 0 THEN <<>>
  ELSE [j \in 1..Len(unresolved_lines[order[1]]) |->
          [first |-> order[1], line |-> unresolved_lines[order[1]][j]]]

\* the (key, line) pairs the two nested loops visit, in order
visit(unresolved_lines, order) ==
  LET F[k \in 0..Len(order)] ==
        IF k = 0 THEN <<>>
        ELSE F[k - 1] \o [j \in 1..Len(unresolved_lines[order[k]]) |->
                            [first |-> order[k], line |-> unresolved_lines[order[k]][j]]]
  IN F[Len(order)]

\* always_assert(success) on the answer of parse_main
asserted(rows, r) ==
  [ok |-> IF r.ok = "true" THEN "true" ELSE "fatal",
   st |-> r.st, rows |-> Append(rows, r.row)]

\* the body of the inner loop, for the pair `pair`
retry(prev, pair, symbols) ==
  IF prev.ok # "true" THEN prev
  ELSE asserted(prev.rows,
                parse_main(pair.line,
                           [prev.st EXCEPT !.m_interaction_id = pair.first], symbols))

retry_all(st0, todo, symbols) ==
  LET F[k \in 0..Len(todo)] ==
        IF k = 0 THEN [ok |-> "true", st |-> st0, rows |-> <<>>]
        ELSE retry(F[k - 1], todo[k], symbols)
  IN F[Len(todo)]

process_unresolved_lines(st, symbols, order) ==
  retry_all([st EXCEPT !.m_unresolved_lines = clear(@)],
            visit(st.m_unresolved_lines, order), symbols)

(***************************************************************************)
(* The lines a stats file is made of here, and the names of the symbol     *)
(* table.  No line has an empty cell between two delimiters.               *)
(***************************************************************************)
Join(cells) ==
  LET F[k \in 0..Len(cells)] ==
        IF k = 0 THEN <<>>
        ELSE IF k = 1 THEN cells[1]
        ELSE F[k - 1] \o <<",">> \o cells[k]
  IN F[Len(cells)]

\* a line of the file as getline returns it, its terminator included
Line(cells) == Join(cells) \o <<NL>>

Foo_bar == <<"L", "f", "o", "o", ";", ".", "b", "a", "r", ":", "(", ")", "V">>
Foo_baz == <<"L", "f", "o", "o", ";", ".", "b", "a", "z", ":", "(", ")", "V">>
Names == {Foo_bar, Foo_baz}
\* the names the symbol table may hold before the file is read; Foo_baz
\* comes with the classes loaded later
KnownAtStart == {Foo_bar}
Nav == <<"N", "a", "v">>

MainColumns ==
  <<s_index, s_name, s_appear100, s_appear_num, s_avg_call, s_avg_order,
    s_avg_rank100, s_min_api_level>>

\* `interaction,appear#` and `index,...,min_api_level`, the terminator on the last cell
HeaderMetadata == Line(<<s_interaction, s_appear_num>>)
HeaderMain == Line(MainColumns)
\* the same headers with one more delimiter before the terminator
HeaderMetadataPadded == Line(<<s_interaction, s_appear_num, EMPTY>>)
HeaderMainPadded == Line(MainColumns \o <<EMPTY>>)
\* the main header with the optional column `interaction`
HeaderMainInteraction == Line(MainColumns \o <<s_interaction>>)

MetaColdStart == Line(<<COLD_START, <<"1", "0", "0", "0">>>>)
MetaBadShape == Line(<<COLD_START, <<"1", "0", "0", "0">>, EMPTY>>)
\* counts outside uint32_t: -1 and 2^32
MetaNegative == Line(<<COLD_START, <<"-", "1">>, EMPTY>>)
MetaTooBig == Line(<<COLD_START, <<"4", "2", "9", "4", "9", "6", "7", "2", "9", "6">>, EMPTY>>)

\* 0,Lfoo;.bar:()V,99.0,990,5.0,900,10.0,15
RowBarCells ==
  <<<<"0">>, Foo_bar, <<"9", "9", ".", "0">>, <<"9", "9", "0">>, <<"5", ".", "0">>,
    <<"9", "0", "0">>, <<"1", "0", ".", "0">>, <<"1", "5">>>>
\* 1,Lfoo;.bar:()V,91.5,915,2.0,100,20.0,21
RowBarAgainCells ==
  <<<<"1">>, Foo_bar, <<"9", "1", ".", "5">>, <<"9", "1", "5">>, <<"2", ".", "0">>,
    <<"1", "0", "0">>, <<"2", "0", ".", "0">>, <<"2", "1">>>>
\* 2,Lfoo;.baz:()V,50.0,500,1.0,300,30.0,-1
RowBazCells ==
  <<<<"2">>, Foo_baz, <<"5", "0", ".", "0">>, <<"5", "0", "0">>, <<"1", ".", "0">>,
    <<"3", "0", "0">>, <<"3", "0", ".", "0">>, <<"-", "1">>>>

RowBar == Line(RowBarCells)
RowBarAgain == Line(RowBarAgainCells)
RowBaz == Line(RowBazCells)
\* rows with a ninth cell: an interaction id, or nothing but the terminator
RowBazNoId == Line(RowBazCells \o <<EMPTY>>)
RowBazNav == Line(RowBazCells \o <<Nav>>)
\* rows with a bad number: appear100 `9x`, min_api_level 40000
RowBadDouble ==
  Line(<<<<"3">>, Foo_bar, <<"9", "x">>, <<"1">>, <<"1", ".", "0">>, <<"1">>, <<"1", ".", "0">>, <<"1">>>>)
RowBadLevel ==
  Line(<<<<"4">>, Foo_bar, <<"9", "9", ".", "0">>, <<"1">>, <<"1", ".", "0">>, <<"1">>,
         <<"1", ".", "0">>, <<"4", "0", "0", "0", "0">>>>)

Lines ==
  {HeaderMetadata, HeaderMain, HeaderMetadataPadded, HeaderMainPadded, HeaderMainInteraction,
   MetaColdStart, MetaBadShape, MetaNegative, MetaTooBig,
   RowBar, RowBarAgain, RowBaz, RowBazNoId, RowBazNav, RowBadDouble, RowBadLevel}

\* the interaction ids a lookup asks for
LookupIds == {COLD_START, Nav}

(***************************************************************************)
(* State.                                                                  *)
(***************************************************************************)
VARIABLES
  pc,                   \* "idle", "reading" (in the loop of parse_stats_file),
                        \* "returned", "fatal" (an always_assert failed)
  ret,                  \* what parse_stats_file returned
  m_mode, m_interaction_id, m_interaction_counts, m_method_stats,
  m_unresolved_lines, m_optional_columns,
  symbols,              \* the names DexMethod::get_method resolves
  errno,
  fp, line,             \* the FILE* and the getline buffer of parse_stats_file
  n_fclose, n_free,     \* calls of fclose(fp) and free(line)
  nread,                \* lines read by getline
  \* history of the run
  cur_line,             \* the line read last, while parse_stats_file is the last call
  by, outcome,          \* the function that handled it, and its answer
  scen,                 \* how many lines of Scenario the lines read so far are, -1 if others
  meta_id,              \* cell 0 of the metadata line parsed last
  rows,                 \* the rows parse_main filed while the file was read
  inserted,             \* the rows parse_main handed to m_method_stats, in order
  retry_rows,           \* the rows the last process_unresolved_lines filed
  last_op,              \* the member function called last
  lookup,               \* the argument and the result of method_stats, when called last
  \* dexmethods_profiled_comparator
  comparator,           \* the members of the comparator constructed last
  cache,                \* the map m_cache points to: it belongs to the caller
  computed,             \* how often a sort key was computed for a method, for this cache
  last_cmp              \* the last call of operator(): operands, keys and answer

store_vars ==
  <<m_mode, m_interaction_id, m_interaction_counts, m_method_stats,
    m_unresolved_lines, m_optional_columns>>
file_vars == <<fp, line, n_fclose, n_free, nread, errno>>
line_vars == <<cur_line, by, outcome>>
hist_vars == <<scen, meta_id, rows>>
cmp_vars == <<comparator, cache, computed, last_cmp>>
vars ==
  <<pc, ret, store_vars, symbols, file_vars, line_vars, hist_vars, inserted,
    retry_rows, last_op, lookup, cmp_vars>>

Store ==
  [m_mode |-> m_mode, m_interaction_id |-> m_interaction_id,
   m_interaction_counts |-> m_interaction_counts, m_method_stats |-> m_method_stats,
   m_unresolved_lines |-> m_unresolved_lines, m_optional_columns |-> m_optional_columns]

SetStore(st) ==
  /\ m_mode' = st.m_mode
  /\ m_interaction_id' = st.m_interaction_id
  /\ m_interaction_counts' = st.m_interaction_counts
  /\ m_method_stats' = st.m_method_stats
  /\ m_unresolved_lines' = st.m_unresolved_lines
  /\ m_optional_columns' = st.m_optional_columns

NoLookup == [called |-> FALSE, interaction_id |-> EMPTY, result |-> empty_map]

\* no comparator constructed yet, and no call of operator() yet
NoComparator ==
  [constructed |-> FALSE, m_whitelisted_substrings |-> {}, m_legacy_order |-> FALSE,
   m_coldstart_start_marker |-> nullptr, m_coldstart_end_marker |-> nullptr,
   m_interactions |-> <<>>]
NoCall == [called |-> FALSE, a |-> nullptr, b |-> nullptr, sort_num_a |-> 0,
           sort_num_b |-> 0, result |-> FALSE]

\* the lines of the concrete scenario, in order
Scenario == <<HeaderMetadata, MetaColdStart, HeaderMain, RowBar>>

Init ==
  /\ pc = "idle"
  /\ ret = FALSE
  /\ m_mode = "NONE"
  /\ m_interaction_id = EMPTY
  /\ m_interaction_counts = <<>>
  /\ m_method_stats = <<>>
  /\ m_unresolved_lines = <<>>
  /\ m_optional_columns = <<>>
  /\ symbols = KnownAtStart
  /\ errno = 0
  /\ fp = "null"
  /\ line = "null"
  /\ n_fclose = 0
  /\ n_free = 0
  /\ nread = 0
  /\ cur_line = EMPTY
  /\ by = "none"
  /\ outcome = "none"
  /\ scen = 0
  /\ meta_id = EMPTY
  /\ rows = <<>>
  /\ inserted = <<>>
  /\ retry_rows = <<>>
  /\ last_op = "none"
  /\ lookup = NoLookup
  /\ comparator = NoComparator
  /\ cache = <<>>
  /\ computed = <<>>
  /\ last_cmp = NoCall

(***************************************************************************)
(* parse_stats_file.                                                       *)
(***************************************************************************)
\* the lambda cleanup(fp, line)
cleanup(f, l) ==
  /\ fp' = IF f # "null" THEN "closed" ELSE fp
  /\ n_fclose' = IF f # "null" THEN n_fclose + 1 ELSE n_fclose
  /\ line' = IF l # "null" THEN "freed" ELSE line
  /\ n_free' = IF l # "null" THEN n_free + 1 ELSE n_free

\* the rows of a sequence that went to m_method_stats
Inserted(rs) ==
  LET F[k \in 0..Len(rs)] ==
        IF k = 0 THEN <<>>
        ELSE LET prev == F[k - 1]
             IN IF rs[k].where = "stats"
                THEN Append(prev, [ref |-> rs[k].ref, interaction_id |-> rs[k].interaction_id,
                                   stats |-> rs[k].stats])
                ELSE prev
  IN F[Len(rs)]

\* csv_filename.empty()
ParseNoFile ==
  /\ pc = "idle"
  /\ pc' = "returned"
  /\ ret' = FALSE
  /\ last_op' = "parse_stats_file"
  /\ UNCHANGED <<store_vars, symbols, file_vars, line_vars, hist_vars, inserted,
                 retry_rows, lookup, cmp_vars>>

\* fopen fails
ParseOpenFails ==
  /\ pc = "idle"
  /\ errno' = 2
  /\ pc' = "returned"
  /\ ret' = FALSE
  /\ last_op' = "parse_stats_file"
  /\ UNCHANGED <<store_vars, symbols, fp, line, n_fclose, n_free, nread,
                 line_vars, hist_vars, inserted, retry_rows, lookup, cmp_vars>>

\* fopen succeeds
ParseOpen ==
  /\ pc = "idle"
  /\ fp' = "open"
  /\ pc' = "reading"
  /\ last_op' = "parse_stats_file"
  /\ UNCHANGED <<ret, store_vars, symbols, line, n_fclose, n_free, nread, errno,
                 line_vars, hist_vars, inserted, retry_rows, lookup, cmp_vars>>

\* getline reads the line l, and the body of the loop handles it
\* the loop after the body answered r for the line l
Handled(l, r) ==
  /\ SetStore(r.st)
  /\ nread' = nread + 1
  /\ cur_line' = l
  /\ by' = r.by
  /\ outcome' = r.ok
  /\ scen' = IF scen = nread /\ nread < Len(Scenario) /\ l = Scenario[nread + 1]
             THEN scen + 1 ELSE 0 - 1
  /\ meta_id' = IF r.by = "parse_metadata" /\ r.ok = "true" THEN Cells(l)[1]
                ELSE meta_id
  /\ rows' = IF r.row.where \in {"stats", "unresolved"} THEN Append(rows, r.row)
             ELSE rows
  /\ inserted' = inserted \o Inserted(<<r.row>>)
  /\ IF r.ok = "true"
     THEN /\ pc' = "reading"
          /\ line' = "allocated"
          /\ UNCHANGED <<ret, fp, n_fclose, n_free>>
     ELSE IF r.ok = "false"
     THEN /\ cleanup(fp, "allocated")
          /\ pc' = "returned"
          /\ ret' = FALSE
     ELSE /\ pc' = "fatal"
          /\ line' = "allocated"
          /\ UNCHANGED <<ret, fp, n_fclose, n_free>>

ReadLine(l) ==
  /\ pc = "reading"
  /\ nread < MaxLines
  /\ Handled(l, parse_one(l, Store, symbols))
  /\ UNCHANGED <<symbols, errno, retry_rows, last_op, lookup, cmp_vars>>

\* getline returns -1 at the end of the file; errno is what the library calls
\* made so far left in it (nothing in parse_stats_file sets it to 0)
ReadEnd ==
  /\ pc = "reading"
  /\ errno' \in {errno, 5}
  /\ cleanup(fp, "allocated")
  /\ pc' = "returned"
  /\ ret' = (errno' = 0)
  /\ UNCHANGED <<store_vars, symbols, nread, line_vars, hist_vars, inserted,
                 retry_rows, last_op, lookup, cmp_vars>>

\* getline returns -1 for a read error
ReadFails ==
  /\ pc = "reading"
  /\ errno' = 5
  /\ cleanup(fp, "allocated")
  /\ pc' = "returned"
  /\ ret' = FALSE
  /\ UNCHANGED <<store_vars, symbols, nread, line_vars, hist_vars, inserted,
                 retry_rows, last_op, lookup, cmp_vars>>

(***************************************************************************)
(* process_unresolved_lines, method_stats, and the symbol table growing    *)
(* between the calls.  They are called on a store whose file was parsed: a *)
(* caller that was told false takes the profile as absent.                 *)
(* method_stats is a const member: a run goes on after it as it goes on    *)
(* from the call before it, so the lookups are taken off the main line.    *)
(***************************************************************************)
Orders(S) ==
  {o \in [1..Cardinality(S) -> S] : \A i, j \in 1..Cardinality(S) : o[i] = o[j] => i = j}

ForgetLine ==
  /\ cur_line' = EMPTY
  /\ by' = "none"
  /\ outcome' = "none"

\* the store and the history after process_unresolved_lines answered r
Retried(r) ==
  /\ SetStore(r.st)
  /\ retry_rows' = r.rows
  /\ inserted' = inserted \o Inserted(r.rows)
  /\ pc' = IF r.ok = "true" THEN "returned" ELSE "fatal"

ProcessUnresolved(order) ==
  /\ pc = "returned"
  /\ ret
  /\ last_op # "method_stats"
  /\ Retried(process_unresolved_lines(Store, symbols, order))
  /\ last_op' = "process_unresolved_lines"
  /\ lookup' = NoLookup
  /\ ForgetLine
  /\ UNCHANGED <<ret, symbols, file_vars, hist_vars, cmp_vars>>

MethodStats(interaction_id) ==
  /\ pc = "returned"
  /\ ret
  /\ last_op \in {"parse_stats_file", "process_unresolved_lines"}
  /\ lookup' = [called |-> TRUE, interaction_id |-> interaction_id,
                result |-> method_stats(m_method_stats, interaction_id)]
  /\ last_op' = "method_stats"
  /\ ForgetLine
  /\ UNCHANGED <<pc, ret, store_vars, symbols, file_vars, hist_vars, inserted,
                 retry_rows, cmp_vars>>

\* a class that is loaded brings the name of a line of the backlog
AddSymbol(n) ==
  /\ pc = "returned"
  /\ ret
  /\ last_op # "method_stats"
  /\ n \notin symbols
  /\ \E id \in DOMAIN m_unresolved_lines :
       \E k \in 1..Len(m_unresolved_lines[id]) : Cells(m_unresolved_lines[id][k])[2] = n
  /\ symbols' = symbols \cup {n}
  /\ last_op' = "none"
  /\ lookup' = NoLookup
  /\ ForgetLine
  /\ UNCHANGED <<pc, ret, store_vars, file_vars, hist_vars, inserted, retry_rows,
                 cmp_vars>>

Next ==
  \/ ParseNoFile
  \/ ParseOpenFails
  \/ ParseOpen
  \/ \E l \in Lines : ReadLine(l)
  \/ ReadEnd
  \/ ReadFails
  \/ \E order \in Orders(DOMAIN m_unresolved_lines) : ProcessUnresolved(order)
  \/ \E id \in LookupIds : MethodStats(id)
  \/ \E n \in Names : AddSymbol(n)

Spec == Init /\ [][Next]_vars

(***************************************************************************)
(* dexmethods_profiled_comparator.  Sort keys are doubles, in thousandths  *)
(* like the other doubles.  RANGE_SIZE, RANGE_STRIDE, COLD_START_RANGE_BEGIN *)
(* and VERY_END are set in MethodProfiles.h; the values here are 100.0,    *)
(* 200.0, 0.0 and a number above every key of the model.                   *)
(***************************************************************************)
RANGE_SIZE == 100000
RANGE_STRIDE == 200000
COLD_START_RANGE_BEGIN == 0
VERY_END == 2000000000

\* the names of the two markers of the cold start
StartMarker ==
  <<"L", "c", "o", "m", "/", "f", "a", "c", "e", "b", "o", "o", "k", "/",
    "c", "o", "m", "m", "o", "n", "/", "m", "e", "t", "h", "o", "d", "p",
    "r", "e", "l", "o", "a", "d", "e", "r", "/", "p", "r", "i", "m", "a",
    "r", "y", "d", "e", "p", "s", "/", "S", "t", "a", "r", "t", "C", "o",
    "l", "d", "S", "t", "a", "r", "t", "M", "e", "t", "h", "o", "d", "P",
    "r", "e", "l", "o", "a", "d", "e", "r", "M", "e", "t", "h", "o", "d",
    "M", "a", "r", "k", "e", "r", ";", ".", "s", "t", "a", "r", "t", "C",
    "o", "l", "d", "S", "t", "a", "r", "t", "M", "e", "t", "h", "o", "d",
    "s", ":", "(", ")", "V">>
EndMarker ==
  <<"L", "c", "o", "m", "/", "f", "a", "c", "e", "b", "o", "o", "k", "/",
    "c", "o", "m", "m", "o", "n", "/", "m", "e", "t", "h", "o", "d", "p",
    "r", "e", "l", "o", "a", "d", "e", "r", "/", "p", "r", "i", "m", "a",
    "r", "y", "d", "e", "p", "s", "/", "E", "n", "d", "C", "o", "l", "d",
    "S", "t", "a", "r", "t", "M", "e", "t", "h", "o", "d", "P", "r", "e",
    "l", "o", "a", "d", "e", "r", "M", "e", "t", "h", "o", "d", "M", "a",
    "r", "k", "e", "r", ";", ".", "e", "n", "d", "C", "o", "l", "d", "S",
    "t", "a", "r", "t", "M", "e", "t", "h", "o", "d", "s", ":", "(", ")",
    "V">>

\* the characters of the ids read here, in the order of their codes
CharCodes ==
  <<"(", ")", ".", "/", "0", "1", "2", "3", "4", "5", "6", "7", "8", "9", ":", ";", "A", "B", "C", "D",
    "E", "F", "G", "H", "I", "J", "K", "L", "M", "N", "O", "P", "Q", "R",
    "S", "T", "U", "V", "W", "X", "Y", "Z", "_", "a", "b", "c", "d", "e", "f",
    "g", "h", "i", "j", "k", "l", "m", "n", "o", "p", "q", "r", "s", "t",
    "u", "v", "w", "x", "y", "z">>
code(c) == CHOOSE i \in 1..Len(CharCodes) : CharCodes[i] = c

\* a < b of std::string, for a and b that differ at position k or where one
\* is a prefix of the other (k past its end)
less_from(a, b, k) ==
  IF k > Len(a) \/ k > Len(b) THEN Len(a) < Len(b) ELSE code(a[k]) < code(b[k])

\* the first position where a and b differ, one past the shorter when none
first_difference(a, b) ==
  LET n == IF Len(a) < Len(b) THEN Len(a) ELSE Len(b)
      d == {k \in 1..n : a[k] # b[k]}
  IN IF d = {} THEN n + 1 ELSE CHOOSE k \in d : \A j \in d : k <= j

string_less(a, b) == less_from(a, b, first_difference(a, b))

\* the predicate handed to std::sort
interaction_less(a, b) ==
  IF a = COLD_START /\ b # COLD_START THEN TRUE ELSE string_less(a, b)

\* all_interactions(): the interaction counts of the store
all_interactions(st) == st.m_interaction_counts

\* the body of the loop of the constructor, for one key of all_interactions()
push_interaction(list, legacy_order, first) ==
  IF ~legacy_order \/ (IF first = EMPTY THEN COLD_START ELSE first) = COLD_START
  THEN Append(list, IF first = EMPTY THEN COLD_START ELSE first)
  ELSE list

\* m_interactions before the sort; order is the order in which the loop
\* meets the keys
pushed_interactions(order, legacy_order) ==
  LET F[k \in 0..Len(order)] ==
        IF k = 0 THEN <<>> ELSE push_interaction(F[k - 1], legacy_order, order[k])
  IN F[Len(order)]

\* the bijections of 1..n, and the rearrangements of a list
Bijections(n) == {p \in [1..n -> 1..n] : \A i, j \in 1..n : p[i] = p[j] => i = j}
Rearrangements(list) == {[i \in 1..Len(list) |-> list[p[i]]] : p \in Bijections(Len(list))}

\* no element is less than one before it
is_sorted(list) ==
  \A i, j \in 1..Len(list) : i < j => ~interaction_less(list[j], list[i])

\* those of the lists ps that are sorted; when the predicate admits none, it
\* is no strict weak ordering of the elements, and std::sort may leave them
\* in any order
sorted_among(ps) ==
  IF \E p \in ps : is_sorted(p) THEN {p \in ps : is_sorted(p)} ELSE ps

\* what std::sort may leave in m_interactions
sort_outcomes(list) == sorted_among(Rearrangements(list))

\* the comparator after its constructor; m_interactions is one of
\* sort_outcomes(pushed_interactions(...))
construct(known, whitelisted_substrings, legacy_order, interactions) ==
  [constructed |-> TRUE,
   m_whitelisted_substrings |-> whitelisted_substrings,
   m_legacy_order |-> legacy_order,
   m_coldstart_start_marker |-> get_method(StartMarker, known),
   m_coldstart_end_marker |-> get_method(EndMarker, known),
   m_interactions |-> interactions]

\* stat.order_percent * RANGE_SIZE / 100.0, for a size of whole units
percent_of(percent, size) ==
  IF isnan(percent) THEN NaN ELSE (percent * (size \div 1000)) \div 100

\* a pass of the loop of get_method_sort_num that returns w, one that stays
\* in the range it was in, and one that goes on to the next range
placed(w) == [found |-> TRUE, w |-> w, range_begin |-> 0]
not_placed_same_range(range_begin) ==
  [found |-> FALSE, w |-> VERY_END, range_begin |-> range_begin]

not_placed(range_begin) ==
  [found |-> FALSE, w |-> VERY_END, range_begin |-> range_begin + RANGE_STRIDE]

\* the second half of the body of the loop: the stats of the method
place_by_stats(cmp, method, range_begin, stats_map) ==
  IF method \in DOMAIN stats_map
  THEN IF cmp.m_legacy_order /\ double_ge(stats_map[method].appear_percent, 95000)
       THEN placed(range_begin + RANGE_SIZE \div 2)
       ELSE IF ~cmp.m_legacy_order /\ double_ge(stats_map[method].appear_percent, 90000)
       THEN placed(double_add(range_begin,
                              percent_of(stats_map[method].order_percent, RANGE_SIZE)))
       ELSE not_placed(range_begin)
  ELSE not_placed(range_begin)

\* the body of the loop of get_method_sort_num
place(cmp, st, method, range_begin, interaction_id) ==
  IF /\ interaction_id = COLD_START
     /\ cmp.m_coldstart_start_marker # nullptr
     /\ cmp.m_coldstart_end_marker # nullptr
     /\ method = cmp.m_coldstart_start_marker
  THEN placed(range_begin)
  ELSE IF /\ interaction_id = COLD_START
          /\ cmp.m_coldstart_start_marker # nullptr
          /\ cmp.m_coldstart_end_marker # nullptr
          /\ method = cmp.m_coldstart_end_marker
  THEN placed(range_begin + RANGE_SIZE)
  ELSE place_by_stats(cmp, method, range_begin,
                      method_stats(st.m_method_stats, interaction_id))

next_interaction(cmp, st, method, prev, interaction_id) ==
  IF prev.found THEN prev ELSE place(cmp, st, method, prev.range_begin, interaction_id)

get_method_sort_num(cmp, st, method) ==
  LET F[k \in 0..Len(cmp.m_interactions)] ==
        IF k = 0 THEN [found |-> FALSE, w |-> VERY_END, range_begin |-> 0]
        ELSE next_interaction(cmp, st, method, F[k - 1], cmp.m_interactions[k])
  IN F[Len(cmp.m_interactions)].w

\* deobfname.find(substr) != std::string::npos
contains(deobfname, substr) ==
  \E i \in 1..(Len(deobfname) + 1) :
    /\ i + Len(substr) - 1 <= Len(deobfname)
    /\ SubSeq(deobfname, i, i + Len(substr) - 1) = substr

\* get_deobfuscated_name() of a method: here the name it was resolved by
get_deobfuscated_name(method) == method

\* an override that asks for a name equal to a whitelisted string
get_method_sort_num_override_equal(cmp, method) ==
  IF get_deobfuscated_name(method) \in cmp.m_whitelisted_substrings
  THEN COLD_START_RANGE_BEGIN + RANGE_SIZE \div 2
  ELSE VERY_END

\* get_method_sort_num_override
get_method_sort_num_override(cmp, method) ==
  IF \E substr \in cmp.m_whitelisted_substrings :
       contains(get_deobfuscated_name(method), substr)
  THEN COLD_START_RANGE_BEGIN + RANGE_SIZE \div 2
  ELSE VERY_END

\* compare_dexmethods: the order of the methods by their names
compare_dexmethods(a, b) == string_less(a, b)

\* the lambda get_sort_num of operator(): the key of the cache when there is
\* one, else the key computed now, which the cache keeps.  computed tells
\* whether the key was computed by this call.
remember(m_cache, m, w) == [w |-> w, cache |-> emplace(m_cache, m, w), computed |-> TRUE]

\* a key that is never looked up in the whitelist
sort_num_no_override(cmp, m, w) == w

\* a method the profile leaves at the very end is looked up in the whitelist
sort_num_or_override(cmp, m, w) ==
  IF double_eq(w, VERY_END) THEN get_method_sort_num_override(cmp, m) ELSE w

\* a get_sort_num that does not look into the cache first
get_sort_num_uncached(cmp, st, m_cache, m) ==
  [w |-> sort_num_or_override(cmp, m, get_method_sort_num(cmp, st, m)),
   cache |-> [x \in DOMAIN m_cache \cup {m} |->
                IF x = m THEN sort_num_or_override(cmp, m, get_method_sort_num(cmp, st, m))
                ELSE m_cache[x]],
   computed |-> TRUE]

get_sort_num(cmp, st, m_cache, m) ==
  IF m \in DOMAIN m_cache THEN [w |-> m_cache[m], cache |-> m_cache, computed |-> FALSE]
  ELSE remember(m_cache, m, sort_num_or_override(cmp, m, get_method_sort_num(cmp, st, m)))

\* the end of operator(): the answer for the two keys
by_keys(a, b, sort_num_a, sort_num_b) ==
  IF double_eq(sort_num_a, sort_num_b) THEN compare_dexmethods(a, b)
  ELSE double_less(sort_num_a, sort_num_b)

\* operator() when one of the operands is null: no key is looked up
null_operand(m_cache, result) ==
  [result |-> result, sort_num_a |-> 0, sort_num_b |-> 0, cache |-> m_cache,
   computed_a |-> FALSE, computed_b |-> FALSE]

with_sort_nums(a, b, ra, rb) ==
  [result |-> by_keys(a, b, ra.w, rb.w), sort_num_a |-> ra.w, sort_num_b |-> rb.w,
   cache |-> rb.cache, computed_a |-> ra.computed, computed_b |-> rb.computed]

with_sort_num_a(cmp, st, a, b, ra) ==
  with_sort_nums(a, b, ra, get_sort_num(cmp, st, ra.cache, b))

\* operator()(a, b)
operator_call(cmp, st, m_cache, a, b) ==
  IF a = nullptr THEN null_operand(m_cache, b # nullptr)
  ELSE IF b = nullptr THEN null_operand(m_cache, FALSE)
  ELSE with_sort_num_a(cmp, st, a, b, get_sort_num(cmp, st, m_cache, a))

(***************************************************************************)
(* The files the comparator is built on, whole, and the symbol tables they *)
(* are read with.                                                          *)
(***************************************************************************)
Foo_qux == <<"L", "f", "o", "o", ";", ".", "q", "u", "x", ":", "(", ")", "V">>
Aaa == <<"A", "a", "a">>

MetaNav == Line(<<Nav, <<"1", "0">>>>)
MetaAaa == Line(<<Aaa, <<"5">>>>)
\* a metadata line whose interaction id is the empty string: `,5`
MetaEmpty == Line(<<EMPTY, <<"5">>>>)

\* 5,Lfoo;.bar:()V,99.0,990,5.0,900,250.0,15 and the same with avg_rank100 nan
RowBarFar ==
  Line(<<<<"5">>, Foo_bar, <<"9", "9", ".", "0">>, <<"9", "9", "0">>, <<"5", ".", "0">>,
         <<"9", "0", "0">>, <<"2", "5", "0", ".", "0">>, <<"1", "5">>>>)
RowBarNaN ==
  Line(<<<<"5">>, Foo_bar, <<"9", "9", ".", "0">>, <<"9", "9", "0">>, <<"5", ".", "0">>,
         <<"9", "0", "0">>, <<"n", "a", "n">>, <<"1", "5">>>>)
\* 6,Lfoo;.baz:()V,95.0,950,1.0,300,30.0,21,Nav
RowBazHotNav ==
  Line(<<<<"6">>, Foo_baz, <<"9", "5", ".", "0">>, <<"9", "5", "0">>, <<"1", ".", "0">>,
         <<"3", "0", "0">>, <<"3", "0", ".", "0">>, <<"2", "1">>, Nav>>)

\* no metadata block: the stats go under the empty id
FileLegacy == <<HeaderMainPadded, RowBar, RowBaz>>
\* one interaction, a method seen in 91.5 % of the runs and one in 50 %
FileWarm == <<HeaderMetadataPadded, MetaColdStart, HeaderMainPadded, RowBarAgain, RowBaz>>
\* two interactions with a count each, and a method in each
FileTwo ==
  <<HeaderMetadataPadded, MetaNav, HeaderMetadataPadded, MetaColdStart,
    HeaderMainInteraction, RowBar, RowBazHotNav>>
\* the same with an avg_rank100 of 250
FileFar ==
  <<HeaderMetadataPadded, MetaNav, HeaderMetadataPadded, MetaColdStart,
    HeaderMainInteraction, RowBarFar, RowBazHotNav>>
\* Nav is named by a row only
FileRowOnly == <<HeaderMetadataPadded, MetaColdStart, HeaderMainInteraction, RowBar, RowBazHotNav>>
\* an interaction whose id is before ColdStart in the order of the strings
FileAaa ==
  <<HeaderMetadataPadded, MetaAaa, HeaderMetadataPadded, MetaColdStart, HeaderMainPadded, RowBar>>
\* a count for the empty id and one for ColdStart
FileBoth ==
  <<HeaderMetadataPadded, MetaEmpty, HeaderMetadataPadded, MetaColdStart, HeaderMainPadded,
    RowBar>>
\* an avg_rank100 that is not a number
FileNaN == <<HeaderMetadataPadded, MetaColdStart, HeaderMainInteraction, RowBarNaN, RowBazHotNav>>

Files == {FileLegacy, FileWarm, FileTwo, FileFar, FileRowOnly, FileAaa, FileBoth, FileNaN}

\* the methods of the program when the file is read, with and without the
\* two markers; Foo_baz comes with the classes loaded later
SymbolTables == {{Foo_bar, Foo_qux}, {Foo_bar, Foo_qux, StartMarker, EndMarker}}
Methods == {Foo_bar, Foo_baz, Foo_qux, StartMarker, EndMarker}
\* the methods a caller sorts
Sorted == {Foo_bar, Foo_baz, Foo_qux}
Whitelists == {{}, {<<"q", "u", "x">>}}

\* how often a key is computed is counted up to this
MaxComputed == 2

(***************************************************************************)
(* parse_stats_file on a whole file, and the comparator on the store it    *)
(* leaves.                                                                 *)
(***************************************************************************)
read(n, r) == [ok |-> r.ok, st |-> r.st, nread |-> n]

\* one turn of the getline loop
read_line(prev, l, known) ==
  IF prev.ok # "true" THEN prev ELSE read(prev.nread + 1, parse_one(l, prev.st, known))

\* the getline loop over the lines of a file
parse_lines(lines, st, known) ==
  LET F[k \in 0..Len(lines)] ==
        IF k = 0 THEN [ok |-> "true", st |-> st, nread |-> 0]
        ELSE read_line(F[k - 1], lines[k], known)
  IN F[Len(lines)]

\* parse_stats_file after its loop answered r
Parsed(r) ==
  /\ SetStore(r.st)
  /\ nread' = r.nread
  /\ IF r.ok = "fatal"
     THEN /\ pc' = "fatal"
          /\ fp' = "open"
          /\ line' = "allocated"
          /\ UNCHANGED <<ret, n_fclose, n_free>>
     ELSE /\ cleanup("open", "allocated")
          /\ pc' = "returned"
          /\ ret' = (r.ok = "true")

\* parse_stats_file(csv_filename) for a file that opens and is read to its end
ParseFile(f) ==
  /\ pc = "idle"
  /\ Parsed(parse_lines(f, Store, symbols))
  /\ last_op' = "parse_stats_file"
  /\ UNCHANGED <<symbols, errno, line_vars, hist_vars, inserted, retry_rows, lookup,
                 cmp_vars>>

\* the constructor: order is the order in which all_interactions() is
\* walked, interactions what std::sort leaves; fresh tells whether the
\* caller hands over a new cache or the one in use
Construct(whitelisted_substrings, legacy_order, fresh, order, interactions) ==
  /\ pc = "returned"
  /\ ret
  /\ interactions \in sort_outcomes(pushed_interactions(order, legacy_order))
  /\ comparator' = construct(symbols, whitelisted_substrings, legacy_order, interactions)
  /\ cache' = IF fresh THEN <<>> ELSE cache
  /\ computed' = IF fresh THEN <<>> ELSE computed
  /\ last_cmp' = IF fresh THEN NoCall ELSE last_cmp
  /\ last_op' = "dexmethods_profiled_comparator"
  /\ UNCHANGED <<pc, ret, store_vars, symbols, file_vars, line_vars, hist_vars, inserted,
                 retry_rows, lookup>>

\* one more computation of the key of m
count(cnt, m) ==
  IF m \in DOMAIN cnt
  THEN [cnt EXCEPT ![m] = IF @ < MaxComputed THEN @ + 1 ELSE @]
  ELSE cnt @@ (m :> 1)

counted(cnt, m, was_computed) == IF was_computed THEN count(cnt, m) ELSE cnt

\* the caller's view of a call of operator() that answered r
Compared(a, b, r) ==
  /\ cache' = r.cache
  /\ computed' = counted(counted(computed, a, r.computed_a), b, r.computed_b)
  /\ last_cmp' = [called |-> TRUE, a |-> a, b |-> b, sort_num_a |-> r.sort_num_a,
                  sort_num_b |-> r.sort_num_b, result |-> r.result]

\* operator()(a, b), for two methods of the program or null
Compare(a, b) ==
  /\ pc = "returned"
  /\ ret
  /\ comparator.constructed
  /\ a \in symbols \cup {nullptr}
  /\ b \in symbols \cup {nullptr}
  /\ Compared(a, b, operator_call(comparator, Store, cache, a, b))
  /\ last_op' = "operator()"
  /\ UNCHANGED <<pc, ret, store_vars, symbols, file_vars, line_vars, hist_vars, inserted,
                 retry_rows, lookup, comparator>>

InitCmp ==
  /\ pc = "idle"
  /\ ret = FALSE
  /\ m_mode = "NONE"
  /\ m_interaction_id = EMPTY
  /\ m_interaction_counts = <<>>
  /\ m_method_stats = <<>>
  /\ m_unresolved_lines = <<>>
  /\ m_optional_columns = <<>>
  /\ symbols \in SymbolTables
  /\ errno = 0
  /\ fp = "null"
  /\ line = "null"
  /\ n_fclose = 0
  /\ n_free = 0
  /\ nread = 0
  /\ cur_line = EMPTY
  /\ by = "none"
  /\ outcome = "none"
  /\ scen = 0
  /\ meta_id = EMPTY
  /\ rows = <<>>
  /\ inserted = <<>>
  /\ retry_rows = <<>>
  /\ last_op = "none"
  /\ lookup = NoLookup
  /\ comparator = NoComparator
  /\ cache = <<>>
  /\ computed = <<>>
  /\ last_cmp = NoCall

\* The life of a store as its clients are meant to live it: the file is
\* parsed, the backlog is retried while the symbol table grows, then
\* comparators are constructed, each on a cache of its own, and compare.
NextCmp ==
  \/ \E f \in Files : ParseFile(f)
  \/ \E n \in Names : ~comparator.constructed /\ AddSymbol(n)
  \/ \E order \in Orders(DOMAIN m_unresolved_lines) :
       ~comparator.constructed /\ ProcessUnresolved(order)
  \/ \E whitelisted_substrings \in Whitelists, legacy_order \in BOOLEAN :
       \E order \in Orders(DOMAIN all_interactions(Store)) :
         \E interactions \in Rearrangements(pushed_interactions(order, legacy_order)) :
           Construct(whitelisted_substrings, legacy_order, TRUE, order, interactions)
  \/ \E a, b \in Sorted \cup {nullptr} : Compare(a, b)

SpecCmp == InitCmp /\ [][NextCmp]_vars

\* The same with what the interface leaves open to a client: a cache handed
\* from one comparator to the next, and a retry on a store that comparators
\* already read.
SharedFiles == {FileTwo}

NextShared ==
  \/ \E f \in SharedFiles : ParseFile(f)
  \/ \E n \in Names : AddSymbol(n)
  \/ \E order \in Orders(DOMAIN m_unresolved_lines) : ProcessUnresolved(order)
  \/ \E whitelisted_substrings \in Whitelists, legacy_order \in BOOLEAN, fresh \in BOOLEAN :
       \E order \in Orders(DOMAIN all_interactions(Store)) :
         \E interactions \in Rearrangements(pushed_interactions(order, legacy_order)) :
           Construct(whitelisted_substrings, legacy_order, fresh, order, interactions)
  \/ \E a, b \in Sorted \cup {nullptr} : Compare(a, b)

SpecShared == InitCmp /\ [][NextShared]_vars


(***************************************************************************)
(* Properties.  Helpers read the run back from its history.                *)
(***************************************************************************)
\* the (method, interaction id) pair of a filed row
Pair(r) == <<r.ref, r.interaction_id>>

\* the name cell of a line of the backlog, and whether the symbol table holds it
RowName(l) == LET cs == Cells(l) IN IF Len(cs) >= 2 THEN cs[2] ELSE EMPTY
Resolvable(l) == RowName(l) \in symbols

\* the lines of a sequence that still do not resolve
StillUnresolved(ls) == SelectSeq(ls, LAMBDA l : ~Resolvable(l))

\* the step is one call of process_unresolved_lines
RetryStep == pc = "returned" /\ last_op' = "process_unresolved_lines"

\* the step is one line read and handled by the loop of parse_stats_file
LineStep == pc = "reading" /\ nread' = nread + 1

BacklogPairs(ul) ==
  UNION {{<<RowName(ul[id][k]), id>> : k \in 1..Len(ul[id])} : id \in DOMAIN ul}

\* the (method, interaction id) pairs of a map of StatsMaps
StatsPairs(ms) == UNION {{<<ref, id>> : ref \in DOMAIN ms[id]} : id \in DOMAIN ms}

\* every line of the backlog resolves, and there is one at least
AllResolve(ul) ==
  /\ ul # <<>>
  /\ \A id \in DOMAIN ul : \A k \in 1..Len(ul[id]) : Resolvable(ul[id][k])

\* C3 (as stated): when the K lines of the backlog all resolve, a call of
\* process_unresolved_lines empties the backlog and adds exactly K entries
\* to the StatsMaps, each row under the id it was stored under.
C3_GrowsByK ==
  [][(RetryStep /\ AllResolve(m_unresolved_lines)) =>
       /\ m_unresolved_lines' = <<>>
       /\ total_rows(m_method_stats') =
            total_rows(m_method_stats) + unresolved_size(m_unresolved_lines)
       /\ BacklogPairs(m_unresolved_lines) \subseteq StatsPairs(m_method_stats')]_vars

\* C3 (amended): when the K lines of the backlog all resolve, a call of
\* process_unresolved_lines empties the backlog, files each row in the
\* StatsMap of the id it was stored under, and adds one entry for every
\* distinct (method, interaction id) pair of the K rows that had no entry
\* yet: K entries only when no two of the rows share a pair.
C3_GrowsByDistinctPairs ==
  [][(RetryStep /\ AllResolve(m_unresolved_lines)) =>
       /\ pc' = "returned"
       /\ m_unresolved_lines' = <<>>
       /\ BacklogPairs(m_unresolved_lines) \subseteq StatsPairs(m_method_stats')
       /\ StatsPairs(m_method_stats') =
            StatsPairs(m_method_stats) \cup BacklogPairs(m_unresolved_lines)
       /\ total_rows(m_method_stats') =
            total_rows(m_method_stats)
              + Cardinality(BacklogPairs(m_unresolved_lines) \ StatsPairs(m_method_stats))]_vars

\* a retry has filed two rows or more, all resolved, two of them under one pair
C3_Witness ==
  /\ last_op = "process_unresolved_lines"
  /\ pc = "returned"
  /\ m_unresolved_lines = <<>>
  /\ Len(retry_rows) >= 2
  /\ \A k \in 1..Len(retry_rows) : retry_rows[k].where = "stats"
  /\ \E j, k \in 1..Len(retry_rows) : j < k /\ Pair(retry_rows[j]) = Pair(retry_rows[k])

\* the file was read to its end and accepted, and nothing was called since
ParsedTrue == pc = "returned" /\ ret /\ last_op = "parse_stats_file"

\* the main header named no `interaction` column
NoInteractionColumn ==
  \A i \in DOMAIN m_optional_columns : m_optional_columns[i] # s_interaction

\* the rows of the file that resolved, and those that did not
ResolvedRows == SelectSeq(rows, LAMBDA r : r.where = "stats")
FailedRows == SelectSeq(rows, LAMBDA r : r.where = "unresolved")

\* the lines of the failed rows filed under id, in the order of the file
FailedLines(id) ==
  LET fs == SelectSeq(FailedRows, LAMBDA r : r.interaction_id = id)
  IN [k \in 1..Len(fs) |-> fs[k].copy]

\* the backlog holds the failed rows and nothing else
BacklogIsFailedRows ==
  /\ DOMAIN m_unresolved_lines = {FailedRows[k].interaction_id : k \in 1..Len(FailedRows)}
  /\ \A id \in DOMAIN m_unresolved_lines : m_unresolved_lines[id] = FailedLines(id)

LookupStep == pc = "returned" /\ last_op' = "method_stats"

\* C5: method_stats(id) returns the StatsMap stored under id when there is
\* one; else, for id = COLD_START, the StatsMap stored under the empty id
\* when there is one; else an empty map.  The call does not fail and leaves
\* the store as it was.
C5_Lookup ==
  [][LookupStep =>
       /\ lookup'.called
       /\ LET id == lookup'.interaction_id
          IN IF id \in DOMAIN m_method_stats
             THEN lookup'.result = m_method_stats[id]
             ELSE IF id = COLD_START /\ EMPTY \in DOMAIN m_method_stats
             THEN lookup'.result = m_method_stats[EMPTY]
             ELSE lookup'.result = <<>>
       /\ pc' = "returned"
       /\ m_method_stats' = m_method_stats
       /\ m_unresolved_lines' = m_unresolved_lines
       /\ m_interaction_counts' = m_interaction_counts
       /\ m_optional_columns' = m_optional_columns
       /\ m_interaction_id' = m_interaction_id
       /\ m_mode' = m_mode]_vars

\* the only StatsMap is stored under the empty id, and method_stats(COLD_START)
\* has returned it
C5_Witness ==
  /\ lookup.called
  /\ lookup.interaction_id = COLD_START
  /\ DOMAIN m_method_stats = {EMPTY}
  /\ lookup.result = m_method_stats[EMPTY]
  /\ lookup.result # <<>>


\* the one entry the scenario leaves: Lfoo;.bar:()V with 99.0, 5.0, 10.0 and 15
ScenarioStats ==
  Foo_bar :> [appear_percent |-> 99000, call_count |-> 5000, order_percent |-> 10000,
              min_api_level |-> 15]

\* C6 (as stated): the four lines of the scenario, read in order with
\* Lfoo;.bar:()V resolvable, are all accepted, parse_stats_file returns true,
\* and method_stats("ColdStart") is then the one entry of Lfoo;.bar:()V with
\* appear_percent 99.0, call_count 5.0, order_percent 10.0, min_api_level 15.
C6_ScenarioParses ==
  /\ (last_op = "parse_stats_file" /\ scen >= 1 /\ scen = nread) => outcome = "true"
  /\ (last_op = "parse_stats_file" /\ scen = Len(Scenario) /\ pc = "returned" /\ errno = 0)
       => /\ ret
          /\ method_stats(m_method_stats, COLD_START) = ScenarioStats

\* the line begins with the eleven characters of `interaction`
BeginsWithInteraction(l) == Len(l) >= 11 /\ SubSeq(l, 1, 11) = s_interaction

\* C7: a line read in mode NONE goes to parse_header, and the mode becomes
\* METADATA when the line begins with `interaction`, MAIN otherwise; a line
\* read in mode METADATA goes to parse_metadata, and the mode is NONE again
\* once it is parsed; a line read in mode MAIN goes to parse_main and the
\* mode stays MAIN, in this call and in every later one; parse_line is not
\* reached in mode NONE; nothing else changes the mode.
C7_Modes ==
  [][/\ LineStep =>
          /\ m_mode = "NONE" =>
               /\ by' = "parse_header"
               /\ m_mode' = IF BeginsWithInteraction(cur_line') THEN "METADATA" ELSE "MAIN"
          /\ m_mode = "METADATA" =>
               /\ by' = "parse_metadata"
               /\ outcome' = "true" => m_mode' = "NONE"
               /\ outcome' # "true" => m_mode' = "METADATA" /\ pc' # "reading"
          /\ m_mode = "MAIN" => by' = "parse_main"
          /\ by' # "invalid"
     /\ ~LineStep => m_mode' = m_mode
     /\ m_mode = "MAIN" => m_mode' = "MAIN"]_vars

\* header, metadata, header and a row were read in the modes NONE, METADATA,
\* NONE and MAIN
C7_Witness ==
  /\ pc = "reading"
  /\ nread = 4
  /\ m_mode = "MAIN"
  /\ by = "parse_main"
  /\ outcome = "true"
  /\ meta_id = COLD_START
  /\ COLD_START \in DOMAIN m_interaction_counts
  /\ Len(rows) = 1
  /\ rows[1].where = "stats"

\* the cell of the `interaction` column of a line, without its terminator;
\* empty when the line has no such cell
Override(l) ==
  LET cs == Cells(l)
      is == {i \in DOMAIN m_optional_columns :
               m_optional_columns[i] = s_interaction /\ i + 1 <= Len(cs)}
  IN IF is = {} THEN EMPTY
     ELSE LET c == cs[(CHOOSE i \in is : TRUE) + 1]
          IN IF c # <<>> /\ c[Len(c)] = NL THEN SubSeq(c, 1, Len(c) - 1) ELSE c

\* the id a row is to be filed under, by its line and the metadata line
FilingId(l) == LET o == Override(l) IN IF o # EMPTY THEN o ELSE meta_id

\* the row is in the StatsMap ms or in the backlog ul of the interaction id
FiledUnder(r, id, ms, ul) ==
  IF r.where = "stats"
  THEN id \in DOMAIN ms /\ r.ref \in DOMAIN ms[id]
  ELSE /\ r.where = "unresolved"
       /\ id \in DOMAIN ul
       /\ \E k \in 1..Len(ul[id]) : ul[id][k] = r.copy

\* the row r, made of the line l, has the id of l and is filed under it
FiledByLine(r, l, ms, ul) ==
  LET id == FilingId(l)
  IN r.copy = l /\ r.interaction_id = id /\ FiledUnder(r, id, ms, ul)

\* C8: a MAIN row is filed, in a StatsMap when its name resolves and in the
\* backlog otherwise, under the value of its `interaction` cell when it has
\* one that is not empty, and else under the interaction id of the metadata
\* line (the empty string when there was none); this holds for a row of the
\* file and for a row of a retry; and a line handled by parse_main leaves
\* m_interaction_id, the id of the metadata line, as it was.
C8_FilingId ==
  [][/\ (LineStep /\ by' = "parse_main" /\ outcome' = "true") =>
          /\ Len(rows') = Len(rows) + 1
          /\ FiledByLine(rows'[Len(rows')], cur_line', m_method_stats', m_unresolved_lines')
          /\ m_interaction_id = meta_id
          /\ m_interaction_id' = m_interaction_id
     /\ RetryStep =>
          /\ Len(retry_rows') = unresolved_size(m_unresolved_lines)
          /\ \A k \in 1..Len(retry_rows') :
               FiledByLine(retry_rows'[k], retry_rows'[k].copy, m_method_stats',
                           m_unresolved_lines')]_vars

\* after the metadata line of ColdStart, a row with the cell Nav is in the
\* backlog of Nav
C8_Witness ==
  /\ meta_id = COLD_START
  /\ m_interaction_id = COLD_START
  /\ Len(rows) = 1
  /\ Override(rows[1].copy) = Nav
  /\ rows[1].interaction_id = Nav
  /\ Nav \in DOMAIN m_unresolved_lines

\* C9 (as stated): a line with a parse-time error ends parse_stats_file with
\* the result false, and leaves the StatsMaps, the interaction counts and
\* the backlog as the earlier lines made them; so does a file that cannot
\* be opened.
C9_ErrorsReturnFalse ==
  [][/\ (LineStep /\ outcome' # "true") =>
          /\ pc' = "returned"
          /\ ret' = FALSE
          /\ m_method_stats' = m_method_stats
          /\ m_interaction_counts' = m_interaction_counts
          /\ m_unresolved_lines' = m_unresolved_lines
     /\ (pc = "idle" /\ pc' = "returned") =>
          /\ ret' = FALSE
          /\ m_method_stats' = m_method_stats
          /\ m_interaction_counts' = m_interaction_counts
          /\ m_unresolved_lines' = m_unresolved_lines]_vars

\* C10 (as stated): however parse_stats_file ends once the file is open,
\* the file was closed once and the line buffer was freed once.
C10_ReleasedOnEveryExit ==
  (pc \in {"returned", "fatal"} /\ fp # "null") => (n_fclose = 1 /\ n_free = 1)


\* every key of a StatsMap is a method that resolved, handed over by a row
\* that parse_main filed
StatsAreResolved ==
  \A id \in DOMAIN m_method_stats : \A ref \in DOMAIN m_method_stats[id] :
    /\ ref # nullptr
    /\ ref \in symbols
    /\ \E k \in 1..Len(inserted) :
         inserted[k].ref = ref /\ inserted[k].interaction_id = id

\* the rows parse_main filed last: while the file was read, or in the latest retry
FiledRows == {rows[k] : k \in 1..Len(rows)} \cup {retry_rows[k] : k \in 1..Len(retry_rows)}

\* every line of the backlog is a line of the file as it was read, put there
\* under its id by a call of parse_main that found no method for its name
BacklogIsUnresolvedRows ==
  \A id \in DOMAIN m_unresolved_lines : \A k \in 1..Len(m_unresolved_lines[id]) :
    /\ m_unresolved_lines[id][k] \in Lines
    /\ \E r \in FiledRows :
         /\ r.where = "unresolved"
         /\ r.ref = nullptr
         /\ r.interaction_id = id
         /\ r.copy = m_unresolved_lines[id][k]

\* the line read by this step went to the backlog, whole, because its name
\* did not resolve; or to the stats, because it did; or nowhere, because a
\* cell of it was refused
RowGoesToOnePlace(row) ==
  IF outcome' # "true"
  THEN m_method_stats' = m_method_stats /\ m_unresolved_lines' = m_unresolved_lines
  ELSE /\ row.copy = cur_line'
       /\ row.where = "unresolved" =>
            /\ RowName(cur_line') \notin symbols
            /\ m_method_stats' = m_method_stats
            /\ row.interaction_id \in DOMAIN m_unresolved_lines'
            /\ m_unresolved_lines'[row.interaction_id]
                 [Len(m_unresolved_lines'[row.interaction_id])] = cur_line'
       /\ row.where = "stats" =>
            /\ RowName(cur_line') \in symbols
            /\ row.ref = RowName(cur_line')
            /\ m_unresolved_lines' = m_unresolved_lines
            /\ row.interaction_id \in DOMAIN m_method_stats'
            /\ row.ref \in DOMAIN m_method_stats'[row.interaction_id]

\* C17: every StatsMap entry is for a method that resolved when it was
\* inserted, every line of the backlog is the whole line of a MAIN row whose
\* name did not resolve when it was parsed last, and a row with a refused
\* cell goes to neither; after every line read and every retry.
C17_ResolvedOrBacklog ==
  [][/\ StatsAreResolved'
     /\ BacklogIsUnresolvedRows'
     /\ (LineStep /\ by' = "parse_main")
          => RowGoesToOnePlace(IF outcome' = "true" THEN rows'[Len(rows')]
                               ELSE NoRow(cur_line'))]_vars

\* a file left one row in the stats and one in the backlog, then a row with a
\* bad number was refused
C17_Witness ==
  /\ by = "parse_main"
  /\ outcome = "fatal"
  /\ m_method_stats # <<>>
  /\ m_unresolved_lines # <<>>


(***************************************************************************)
(* Properties of the comparator.                                           *)
(***************************************************************************)
\* a comparator was constructed on a store whose file was accepted
Comparing == pc = "returned" /\ ret /\ comparator.constructed

\* the range the i-th interaction of the list starts at
RangeBegin(i) == (i - 1) * RANGE_STRIDE

\* the method is one of the two markers, both resolved, and the i-th
\* interaction is the cold start
MarkerAt(m, i) ==
  /\ comparator.m_interactions[i] = COLD_START
  /\ comparator.m_coldstart_start_marker # nullptr
  /\ comparator.m_coldstart_end_marker # nullptr
  /\ m \in {comparator.m_coldstart_start_marker, comparator.m_coldstart_end_marker}

\* the Stats the store gives for the method in the i-th interaction
HasStatsAt(m, i) ==
  m \in DOMAIN method_stats(m_method_stats, comparator.m_interactions[i])
StatsAt(m, i) == method_stats(m_method_stats, comparator.m_interactions[i])[m]

\* the i-th interaction places the method
PlacesAt(m, i) ==
  \/ MarkerAt(m, i)
  \/ /\ HasStatsAt(m, i)
     /\ IF comparator.m_legacy_order
        THEN double_ge(StatsAt(m, i).appear_percent, 95000)
        ELSE double_ge(StatsAt(m, i).appear_percent, 90000)

\* the key the i-th interaction gives the method it places
KeyAt(m, i) ==
  IF MarkerAt(m, i)
  THEN IF m = comparator.m_coldstart_start_marker THEN RangeBegin(i)
       ELSE RangeBegin(i) + RANGE_SIZE
  ELSE IF comparator.m_legacy_order THEN RangeBegin(i) + RANGE_SIZE \div 2
  ELSE IF isnan(StatsAt(m, i).order_percent) THEN NaN
  ELSE RangeBegin(i) + (StatsAt(m, i).order_percent * (RANGE_SIZE \div 1000)) \div 100

\* the interactions of the list that place the method
Placing(m) == {i \in 1..Len(comparator.m_interactions) : PlacesAt(m, i)}

\* the key of the first interaction that places the method, VERY_END when none does
ExpectedSortNum(m) ==
  IF Placing(m) = {} THEN VERY_END
  ELSE KeyAt(m, CHOOSE i \in Placing(m) : \A j \in Placing(m) : i <= j)

\* C16: get_method_sort_num gives a method the key of the first interaction
\* of the list that places it, counting the ranges from 0 in steps of
\* RANGE_STRIDE: range_begin and range_begin + RANGE_SIZE for the two
\* markers in the cold start, range_begin + RANGE_SIZE/2 in legacy mode for
\* an appear_percent of 95 or more, range_begin + order_percent*RANGE_SIZE/100
\* in modern mode for 90 or more, and VERY_END when no interaction places
\* it; in legacy mode the list holds the cold start only.
C16_SortNum ==
  Comparing =>
    /\ \A m \in symbols : get_method_sort_num(comparator, Store, m) = ExpectedSortNum(m)
    /\ comparator.m_legacy_order =>
         \A i \in 1..Len(comparator.m_interactions) : comparator.m_interactions[i] = COLD_START

\* operator() computed the key of a method that the second interaction of
\* the list places, and the markers are resolved
C16_Witness ==
  /\ Comparing
  /\ last_cmp.called
  /\ last_cmp.a \in DOMAIN computed
  /\ Placing(last_cmp.a) # {}
  /\ 1 \notin Placing(last_cmp.a)
  /\ last_cmp.sort_num_a = ExpectedSortNum(last_cmp.a)
  /\ last_cmp.sort_num_a > RANGE_STRIDE
  /\ comparator.m_coldstart_start_marker # nullptr


\* the step keeps the cache in use: every step but a constructor that is
\* handed a new cache
KeepsCache == ~(last_op' = "dexmethods_profiled_comparator" /\ computed' = <<>>)

\* the step is a call of operator()
CompareStep == Comparing /\ last_op' = "operator()"

\* the answer operator() gives for a and b on the comparator, store and
\* cache cmp, st and m_cache
Answer_of(cmp, st, m_cache, a, b) == operator_call(cmp, st, m_cache, a, b).result

\* C15: with one cache, the key of a method is computed once at most, a key
\* in the cache is neither changed nor removed by anything that follows (a
\* comparison, a retry that changes the store, another comparator on the
\* same cache), and a pair that was compared gets the same answer again.
C15_CacheIsStable ==
  [][/\ \A m \in DOMAIN computed' : computed'[m] <= 1
     /\ KeepsCache =>
          /\ \A m \in DOMAIN cache : m \in DOMAIN cache' /\ cache'[m] = cache[m]
          /\ \A a, b \in DOMAIN cache :
               comparator.constructed =>
                 Answer_of(comparator', Store', cache', a, b)
                   = Answer_of(comparator, Store, cache, a, b)
          /\ (CompareStep /\ last_cmp.called
                /\ last_cmp'.a = last_cmp.a /\ last_cmp'.b = last_cmp.b)
               => last_cmp'.result = last_cmp.result]_vars

\* a method was compared before its row was filed by a retry, and again
\* after it: the cache still holds the key of the first time, which is no
\* longer the one the store gives
C15_Witness ==
  /\ Comparing
  /\ last_op = "operator()"
  /\ last_cmp.a \in DOMAIN cache
  /\ last_cmp.b \in DOMAIN cache
  /\ retry_rows # <<>>
  /\ cache[last_cmp.a] = VERY_END
  /\ last_cmp.sort_num_a = VERY_END
  /\ get_method_sort_num(comparator, Store, last_cmp.a) # VERY_END



\* the first interaction of the list that places the method
PlacedBy(m) == CHOOSE i \in Placing(m) : \A j \in Placing(m) : i <= j

\* operator()(a, b) of the comparator on a cache that holds nothing
LessFresh(a, b) == operator_call(comparator, Store, <<>>, a, b).result

\* operator() orders a strictly before b, on a cache that holds nothing
StrictlyBefore(a, b) == LessFresh(a, b) /\ ~LessFresh(b, a)

\* C11: when interaction A is before interaction B in the list of the
\* comparator, every method whose key comes from the range of A is ordered
\* by operator(), on a fresh cache, strictly before every method whose key
\* comes from the range of B.
C11_MonotonicLayout ==
  Comparing =>
    \A a, b \in symbols :
      (Placing(a) # {} /\ Placing(b) # {} /\ PlacedBy(a) < PlacedBy(b))
        => StrictlyBefore(a, b)



\* the name of the method contains a substring of the whitelist
Whitelisted(m) ==
  \E substr \in comparator.m_whitelisted_substrings :
    contains(get_deobfuscated_name(m), substr)

\* no StatsMap of the store has an entry for the method
AbsentFromStats(m) == \A id \in DOMAIN m_method_stats : m \notin DOMAIN m_method_stats[id]

\* the methods the whitelist override applies to
Overridden(m) == AbsentFromStats(m) /\ Whitelisted(m) /\ Placing(m) = {}

\* the methods without placement and without whitelist match
LeftAtEnd(m) == Placing(m) = {} /\ ~Whitelisted(m)

\* the key of the whitelist override
OverrideKey == COLD_START_RANGE_BEGIN + RANGE_SIZE \div 2

\* C12 as stated: a method absent from all StatsMaps whose name contains a
\* whitelisted substring is ordered strictly before every method without
\* placement and without whitelist match, and strictly after every method
\* that get_method_sort_num placed in the range of an interaction.
C12_AfterEveryPlaced ==
  Comparing =>
    \A m \in symbols :
      (AbsentFromStats(m) /\ Whitelisted(m)) =>
        /\ \A u \in symbols : LeftAtEnd(u) => StrictlyBefore(m, u)
        /\ \A p \in symbols : (p # m /\ Placing(p) # {}) => StrictlyBefore(p, m)

\* operator() orders a and b, on a cache that holds nothing, as
\* compare_dexmethods does
ByIdentity(a, b) ==
  /\ LessFresh(a, b) = compare_dexmethods(a, b)
  /\ LessFresh(b, a) = compare_dexmethods(b, a)

\* operator() orders the overridden method m and the placed method p by
\* their keys
ByOverrideKey(m, p) ==
  /\ double_less(ExpectedSortNum(p), OverrideKey) => StrictlyBefore(p, m)
  /\ double_less(OverrideKey, ExpectedSortNum(p)) => StrictlyBefore(m, p)
  /\ double_eq(ExpectedSortNum(p), OverrideKey) => ByIdentity(m, p)

\* C12, amended: such a method, when it is not itself a resolved marker, is
\* ordered (on a fresh cache) strictly before every method without placement
\* and without whitelist match; against a placed method it is ordered by the
\* key COLD_START_RANGE_BEGIN + RANGE_SIZE/2, the middle of the first range:
\* after the placed methods with a smaller key, before those with a larger
\* key, and as compare_dexmethods says on an equal key.
C12_MidColdStart ==
  Comparing =>
    \A m \in symbols :
      Overridden(m) =>
        /\ \A u \in symbols : LeftAtEnd(u) => StrictlyBefore(m, u)
        /\ \A p \in symbols : Placing(p) # {} => ByOverrideKey(m, p)

\* operator() was asked whether a method placed past the middle of the
\* first range comes before a method that has the whitelist override, and
\* said no; a method left at the end is there too
C12_Witness ==
  /\ Comparing
  /\ last_cmp.called
  /\ last_cmp.a \in symbols
  /\ last_cmp.b \in symbols
  /\ Placing(last_cmp.a) # {}
  /\ Overridden(last_cmp.b)
  /\ last_cmp.sort_num_b = OverrideKey
  /\ double_less(OverrideKey, last_cmp.sort_num_a)
  /\ ~last_cmp.result
  /\ \E u \in symbols : LeftAtEnd(u)



\* the cold start, when it is in the list, is its first element
ColdStartFirst(list) ==
  (\E i \in 1..Len(list) : list[i] = COLD_START) => list[1] = COLD_START

\* the other ids of the list ascend
OthersAscend(list) ==
  \A i, j \in 1..Len(list) :
    (i < j /\ list[i] # COLD_START /\ list[j] # COLD_START)
      => ~string_less(list[j], list[i])

\* the predicate of the sort never says both a < b and b < a of two ids
Asymmetric(ids) ==
  \A a, b \in ids : ~(interaction_less(a, b) /\ interaction_less(b, a))

\* C13: the list of the constructor has the cold start first when it is
\* there, then the other ids in ascending order, whatever the ids of the
\* store are; the predicate of the sort never reports both a < b and b < a.
C13_ColdStartFirst ==
  comparator.constructed =>
    /\ ColdStartFirst(comparator.m_interactions)
    /\ OthersAscend(comparator.m_interactions)
    /\ Asymmetric({comparator.m_interactions[i] : i \in 1..Len(comparator.m_interactions)})



\* operator()(a, b) of the comparator on the cache in use
Less(a, b) == operator_call(comparator, Store, cache, a, b).result

\* the two keys operator()(a, b) used
KeysOf(a, b) ==
  <<operator_call(comparator, Store, cache, a, b).sort_num_a,
    operator_call(comparator, Store, cache, a, b).sort_num_b>>

\* the smaller key first, and compare_dexmethods on equal keys
SmallerKeyFirst(a, b, keys) ==
  Less(a, b) = (IF keys[1] = keys[2] THEN compare_dexmethods(a, b) ELSE keys[1] < keys[2])

\* C14: over the methods of the program and null, operator() is a strict
\* total order: irreflexive, asymmetric and transitive; null is not less
\* than null and is less than every method; of two distinct methods exactly
\* one is less than the other, the one with the smaller key, and on equal
\* keys the one compare_dexmethods puts first.
C14_StrictTotalOrder ==
  Comparing =>
    /\ \A a \in symbols \cup {nullptr} : ~Less(a, a)
    /\ \A a, b \in symbols \cup {nullptr} : Less(a, b) => ~Less(b, a)
    /\ \A a, b, c \in symbols \cup {nullptr} : (Less(a, b) /\ Less(b, c)) => Less(a, c)
    /\ \A a \in symbols : Less(nullptr, a) /\ ~Less(a, nullptr)
    /\ \A a, b \in symbols :
         a # b => /\ Less(a, b) # Less(b, a)
                  /\ SmallerKeyFirst(a, b, KeysOf(a, b))



\* the key operator() uses for the method on a cache that holds nothing
FreshKey(m) == operator_call(comparator, Store, <<>>, m, m).sort_num_a

\* some StatsMap has the method with an appear_percent of 90 or more
SeenOften(m) ==
  \E id \in DOMAIN m_method_stats :
    /\ m \in DOMAIN m_method_stats[id]
    /\ double_ge(m_method_stats[id][m].appear_percent, 90000)

\* C18: in modern mode and on a fresh cache, every method that some
\* StatsMap has with an appear_percent of 90 or more gets a key smaller
\* than VERY_END, also when the file had no metadata block (its stats are
\* under the empty id) and when the id of the row came from the row's
\* interaction column only.
C18_SeenOftenIsPlaced ==
  (Comparing /\ ~comparator.m_legacy_order) =>
    \A m \in symbols : SeenOften(m) => double_less(FreshKey(m), VERY_END)



\* C19: the list of the comparator holds each interaction id once at most,
\* so that each interaction has one range, also when the store has counts
\* for the empty id and for the cold start, which the constructor takes
\* for the same id.
C19_EachIdOnce ==
  comparator.constructed =>
    \A i, j \in 1..Len(comparator.m_interactions) :
      comparator.m_interactions[i] = comparator.m_interactions[j] => i = j



\* the key the comparator computes for the method from its own list, flag
\* and whitelist and from the store
OwnKey(m) ==
  IF Placing(m) # {} THEN ExpectedSortNum(m)
  ELSE IF Whitelisted(m) THEN OverrideKey
  ELSE VERY_END

\* C20 as stated: the key operator() uses for a method is the key this
\* comparator computes for it, also when the cache was filled by another
\* comparator before: a new comparator invalidates the keys in the cache.
C20_OwnKey ==
  (Comparing /\ last_op = "operator()" /\ last_cmp.a # nullptr /\ last_cmp.b # nullptr) =>
    /\ last_cmp.sort_num_a = OwnKey(last_cmp.a)
    /\ last_cmp.sort_num_b = OwnKey(last_cmp.b)

\* the key operator() takes for a method when the cache is m_cache: the
\* one the cache holds, whoever put it there, else the comparator's own
CachedOrOwn(m_cache, m) == IF m \in DOMAIN m_cache THEN m_cache[m] ELSE OwnKey(m)

\* C20, amended: the key operator() uses for a method is the one the cache
\* holds for it, also when another comparator (another flag, whitelist or
\* state of the store) put it there, and the comparator's own only when the
\* cache holds none, which is then stored; a constructor that is handed the
\* cache in use leaves its keys as they are.
C20_CachedKeyFirst ==
  [][/\ (CompareStep /\ last_cmp'.a # nullptr /\ last_cmp'.b # nullptr) =>
          /\ last_cmp'.sort_num_a = CachedOrOwn(cache, last_cmp'.a)
          /\ last_cmp'.sort_num_b = CachedOrOwn(cache, last_cmp'.b)
          /\ cache'[last_cmp'.a] = last_cmp'.sort_num_a
          /\ cache'[last_cmp'.b] = last_cmp'.sort_num_b
     /\ (last_op' = "dexmethods_profiled_comparator" /\ KeepsCache) => cache' = cache]_vars

\* operator() used a key for its first operand that is not the one the
\* comparator computes, on a store that no retry has changed: the key was
\* put in the cache under another comparator
C20_Witness ==
  /\ Comparing
  /\ last_op = "operator()"
  /\ last_cmp.a # nullptr
  /\ last_cmp.b # nullptr
  /\ retry_rows = <<>>
  /\ last_cmp.sort_num_a # OwnKey(last_cmp.a)
  /\ cache[last_cmp.a] = last_cmp.sort_num_a

====
